---- MODULE Spec2Model ----
(***************************************************************************)
(* Groq provider of wox.core/ai: ChatStream starts one background          *)
(* generation task per call, which writes the backend's streamed bytes     *)
(* into a 4 KB nio pipe; GroqProviderStream.Receive reads up to 2 KB per   *)
(* call from the pipe's read side.                                         *)
(*                                                                         *)
(* A byte is identified by the call whose backend produced it and by its   *)
(* offset in that backend's output.  A byte string is kept run-length      *)
(* encoded: a sequence of runs [src, lo, hi], each standing for the bytes  *)
(* lo..hi of call src's backend output, adjacent runs merged.              *)
(***************************************************************************)
EXTENDS Integers, Sequences, FiniteSets, TLC

\* buffer.New(4 * 1024)
BufferSize == 4096
\* make([]byte, 2048)
ReadSize == 2048

\* ChatStream calls made on the provider
MaxCalls == 2
\* chunks a backend hands to the streaming callback of one call
MaxChunks == 3
\* chunks per call when two streams run side by side
MaxChunksTwo == 1
\* chunks per call in the runs checked for progress
MaxChunksLive == 1
\* entries of the data array of a model-listing response
MaxEntries == 3
\* turns of a conversation history
MaxTurns == 3
\* tools of one ChatOptions
MaxTools == 3
\* Receive calls made after a terminal condition was returned
MaxTerminalReads == 2

Calls == 1..MaxCalls
\* sizes of the chunks the backend delivers: one byte, one buffer minus one,
\* more than the pipe holds
ChunkSizes == {1, BufferSize - 1, BufferSize + 904}
\* sizes when two streams run side by side: one Read's worth and a byte
ChunkSizesTwo == {ReadSize + 1}

\* error values: nil, io.EOF, a transport error, the context's error, and a
\* transport error that wraps io.EOF (url.Error{Err: io.EOF})
Nil == "nil"
EOF == "EOF"
ErrTransport == "ErrTransport"
ErrCanceled == "ErrCanceled"
ErrWrapsEOF == "ErrWrapsEOF"
ErrClient == "ErrClient"

VARIABLES
    connectContext, \* GroqProvider.connectContext (the API key)
    modelsRet,      \* last Models call: what the GET gave, and (models, err) returned
    pingRet,        \* last Ping call: the err returned
    chatMessages,   \* last convertConversations call: argument and result
    convertedTools, \* last convertTools call: argument and result
    nCalls,         \* ChatStream calls made so far
    callResult,     \* per call: "none" (not made), "ok" (handle returned), "error"
    callCtxDone,    \* per call: the context given to ChatStream is cancelled
    nTasks,         \* per call: background tasks started by util.Go
    hasPipe,        \* per call: nio.Pipe(buf) was created
    taskPc,         \* per call: "none", "generating", "writing", "returned", "done"
    nChunks,        \* per call: chunks delivered to the streaming callback
    produced,       \* per call: bytes delivered to the streaming callback
    pending,        \* per call: the part of the chunk w.Write has not yet buffered
    genErr,         \* per call: err returned by client.GenerateContent
    buf,            \* per call: content of the pipe's buffer
    werr,           \* per call: the pipe's writer-side close error (Nil while open)
    recvPc,         \* per call: "idle" or "reading" (inside Receive)
    recvCtx,        \* per call: context given to the running Receive: "chat" or "own"
    recvCtxDone,    \* per call: the running Receive's own context is cancelled
    received,       \* per call: all bytes returned by Receive so far
    lastChunk,      \* per call: bytes returned by the last Receive
    lastErr,        \* per call: error returned by the last Receive
    firstTerminal,  \* per call: first non-nil error Receive returned
    nTerminal       \* per call: Receive calls that returned a non-nil error

vars == <<connectContext, modelsRet, pingRet, chatMessages, convertedTools, nCalls, callResult, callCtxDone, nTasks, hasPipe, taskPc,
          nChunks, produced, pending, genErr, buf, werr, recvPc, recvCtx,
          recvCtxDone, received, lastChunk, lastErr, firstTerminal, nTerminal>>

\* the provider itself and the last results of its stream-less operations
providerVars == <<connectContext, modelsRet, pingRet, chatMessages, convertedTools>>
callVars == <<nCalls, callResult, nTasks, hasPipe>>
taskVars == <<taskPc, nChunks, produced, pending, genErr>>
pipeVars == <<buf, werr>>
recvVars == <<recvPc, recvCtx, recvCtxDone, received, lastChunk, lastErr,
              firstTerminal, nTerminal>>

Min(a, b) == IF a <= b THEN a ELSE b

----------------------------------------------------------------------------
\* byte strings

RunLen(r) == r.hi - r.lo + 1

RECURSIVE BytesLen(_)
BytesLen(bs) ==
    IF bs = <<>> THEN 0 ELSE RunLen(Head(bs)) + BytesLen(Tail(bs))

\* a \o b
BytesConcat(a, b) ==
    IF b = <<>> THEN a
    ELSE IF a = <<>> THEN b
    ELSE LET x == a[Len(a)]
             y == Head(b)
         IN  IF x.src = y.src /\ x.hi + 1 = y.lo
             THEN SubSeq(a, 1, Len(a) - 1) \o <<[x EXCEPT !.hi = y.hi]>> \o Tail(b)
             ELSE a \o b

\* bs[:n]
RECURSIVE BytesTake(_, _)
BytesTake(bs, n) ==
    IF n <= 0 \/ bs = <<>> THEN <<>>
    ELSE LET h == Head(bs)
         IN  IF RunLen(h) <= n
             THEN <<h>> \o BytesTake(Tail(bs), n - RunLen(h))
             ELSE <<[h EXCEPT !.hi = h.lo + n - 1]>>

\* bs[n:]
RECURSIVE BytesDrop(_, _)
BytesDrop(bs, n) ==
    IF n <= 0 \/ bs = <<>> THEN bs
    ELSE LET h == Head(bs)
         IN  IF RunLen(h) <= n
             THEN BytesDrop(Tail(bs), n - RunLen(h))
             ELSE <<[h EXCEPT !.lo = h.lo + n]>> \o Tail(bs)

\* bytes lo..hi of the output of call c's backend
BackendBytes(c, lo, hi) ==
    IF hi < lo THEN <<>> ELSE <<[src |-> c, lo |-> lo, hi |-> hi]>>

----------------------------------------------------------------------------
\* errors.Is(err, io.EOF)
ErrorsIsEOF(err) == err \in {EOF, ErrWrapsEOF}

\* Receive: the error it returns for the error s.reader.Read returned
ReceiveError(err) == IF ErrorsIsEOF(err) THEN EOF ELSE err

\* the task's close: w.CloseWithError(err) or w.Close()
CloseError(err) == IF err # Nil THEN err ELSE EOF

\* PipeWriter.CloseWithError: the first close wins
PipeCloseWithError(old, err) == IF old = Nil THEN err ELSE old

\* a Write that does not wait for room in the buffer
PipeWriteCountUnbounded(p, b) == BytesLen(p)

\* a Write that waits until its whole chunk fits into the buffer
PipeWriteCountWhole(p, b) ==
    IF BytesLen(p) <= BufferSize - BytesLen(b) THEN BytesLen(p) ELSE 0

\* bytes one pass of the pipe's Write moves into the buffer
PipeWriteCount(p, b) == Min(BytesLen(p), BufferSize - BytesLen(b))

\* a Read that hands over all the buffer holds, whatever the slice's length
PipeReadCountAll(b) == BytesLen(b)

\* n of n, err := s.reader.Read(buf): what one Read takes out of a non-empty buffer
PipeReadCount(b) == Min(ReadSize, BytesLen(b))

\* string(buf[:n-1])
ReceiveChunkShort(b, n) == BytesTake(b, n - 1)

\* string(buf[:n]), buf holding the first n bytes of the pipe's buffer b
ReceiveChunk(b, n) == BytesTake(b, n)

\* a Read that reports the close error ahead of the buffered bytes
PipeReadFailsEarly(b, e) == e # Nil

\* the pipe's Read returns the close error: only once the buffer is empty
PipeReadFails(b, e) == b = <<>> /\ e # Nil

----------------------------------------------------------------------------
\* sequences over S of length at most n
SeqsUpTo(S, n) == UNION {[1..m -> S] : m \in 0..n}

\* the response of GET {groqBaseUrl}/models.  A body is a JSON document with an
\* array under "data" (kind "list"), a JSON document without "data" (an error
\* object), or no JSON at all; an entry has an id and an "active" that is
\* true, false or absent.
ModelIds == {"llama3", "gemma2"}
Entries == [id : ModelIds, active : {"true", "false", "absent"}]
NoBody == [kind |-> "none", data |-> <<>>]
Bodies ==
    {[kind |-> "list", data |-> d] : d \in SeqsUpTo(Entries, MaxEntries)}
      \cup {[kind |-> "noData", data |-> <<>>], [kind |-> "notJSON", data |-> <<>>]}

\* the fixture of the response example: three models, two of them active
FixtureBody ==
    [kind |-> "list",
     data |-> <<[id |-> "llama3", active |-> "true"],
                [id |-> "gemma2", active |-> "false"],
                [id |-> "gemma2", active |-> "true"]>>]

\* common.ProviderNameGroq
ProviderNameGroq == "groq"

\* gjson.Get(string(body), "data"): the elements ForEach visits; a result that
\* does not exist has none
GjsonData(body) == IF body.kind = "list" THEN body.data ELSE <<>>

\* a test that takes every entry whose active is not false
GjsonBoolNotFalse(active) == active # "false"

\* value.Get("active").Bool()
GjsonBool(active) == active = "true"

\* the ForEach callback, from element i on: models = append(models, ...)
RECURSIVE ForEachActive(_, _, _)
ForEachActive(data, i, models) ==
    IF i > Len(data) THEN models
    ELSE ForEachActive(data, i + 1,
            IF GjsonBool(data[i].active)
            THEN Append(models, [Name |-> data[i].id, Provider |-> ProviderNameGroq])
            ELSE models)

\* common.ConversationRoleUser, common.ConversationRoleAI, and a role that is
\* neither
ConversationRoleUser == "user"
ConversationRoleAI == "ai"
Roles == {ConversationRoleUser, ConversationRoleAI, "system"}
Conversations == [Role : Roles, Text : {"hi", "bye"}]

\* llms.TextParts(role, text)
TextParts(role, text) == [Role |-> role, Text |-> text]

\* a loop body that appends a human message for every role but the AI's
ConvertTurnNoFilter(chatMsgs, conversation) ==
    IF conversation.Role = ConversationRoleAI
    THEN Append(chatMsgs, TextParts("ai", conversation.Text))
    ELSE Append(chatMsgs, TextParts("human", conversation.Text))

\* the body of the loop of convertConversations: its two ifs
ConvertTurn(chatMsgs, conversation) ==
    LET afterUser ==
            IF conversation.Role = ConversationRoleUser
            THEN Append(chatMsgs, TextParts("human", conversation.Text))
            ELSE chatMsgs
    IN  IF conversation.Role = ConversationRoleAI
        THEN Append(afterUser, TextParts("ai", conversation.Text))
        ELSE afterUser

\* for _, conversation := range conversations { ... }, from turn i on
RECURSIVE ConvertLoop(_, _, _)
ConvertLoop(conversations, i, chatMsgs) ==
    IF i > Len(conversations) THEN chatMsgs
    ELSE ConvertLoop(conversations, i + 1, ConvertTurn(chatMsgs, conversations[i]))

\* GroqProvider.convertConversations
convertConversations(conversations) == ConvertLoop(conversations, 1, <<>>)

\* common.MCPTool: name and description
Tools == [Name : {"search", "open", "calc"}, Description : {"finds", "runs"}]

\* the jsonschema.Definition every converted tool gets as Parameters
ToolParameters ==
    [Type |-> "object",
     Properties |->
        [rationale |->
            [Type |-> "string",
             Description |-> "The rationale for choosing this function call with these parameters"],
         suggestions |->
            [Type |-> "array",
             Items |-> [Type |-> "string", Description |-> "A suggested prompt"]]],
     Required |-> <<"rationale", "suggestions">>]

\* llms.Tool{Type: "function", Function: &llms.FunctionDefinition{...}}
ConvertTool(tool) ==
    [Type |-> "function",
     Function |-> [Name |-> tool.Name, Description |-> tool.Description,
                   Parameters |-> ToolParameters]]

\* the zero llms.Tool
ZeroTool == [Type |-> "", Function |-> "nil"]

\* a convertTools that appends to the slice it made with len(tools) elements
convertToolsAppend(tools) ==
    [i \in 1..Len(tools) |-> ZeroTool] \o [i \in 1..Len(tools) |-> ConvertTool(tools[i])]

\* GroqProvider.convertTools: convertedTools[i] = llms.Tool{...} for every i
convertTools(tools) == [i \in 1..Len(tools) |-> ConvertTool(tools[i])]

----------------------------------------------------------------------------
Init ==
    /\ connectContext = "apiKey"
    /\ modelsRet = [called |-> FALSE, transportErr |-> Nil, body |-> NoBody,
                    models |-> <<>>, err |-> Nil]
    /\ pingRet = [called |-> FALSE, err |-> Nil]
    /\ chatMessages = [called |-> FALSE, conversations |-> <<>>, out |-> <<>>]
    /\ convertedTools = [called |-> FALSE, tools |-> <<>>, out |-> <<>>]
    /\ nCalls = 0
    /\ callResult = [c \in Calls |-> "none"]
    /\ callCtxDone = [c \in Calls |-> FALSE]
    /\ nTasks = [c \in Calls |-> 0]
    /\ hasPipe = [c \in Calls |-> FALSE]
    /\ taskPc = [c \in Calls |-> "none"]
    /\ nChunks = [c \in Calls |-> 0]
    /\ produced = [c \in Calls |-> 0]
    /\ pending = [c \in Calls |-> <<>>]
    /\ genErr = [c \in Calls |-> Nil]
    /\ buf = [c \in Calls |-> <<>>]
    /\ werr = [c \in Calls |-> Nil]
    /\ recvPc = [c \in Calls |-> "idle"]
    /\ recvCtx = [c \in Calls |-> "chat"]
    /\ recvCtxDone = [c \in Calls |-> FALSE]
    /\ received = [c \in Calls |-> <<>>]
    /\ lastChunk = [c \in Calls |-> <<>>]
    /\ lastErr = [c \in Calls |-> Nil]
    /\ firstTerminal = [c \in Calls |-> "none"]
    /\ nTerminal = [c \in Calls |-> 0]

Streams == {c \in Calls : callResult[c] = "ok"}

\* a ChatStream that creates the pipe and starts the task before it looks at
\* clientErr
ChatStreamEager(c, clientErr, maxStreams) ==
    /\ c = nCalls + 1
    /\ clientErr = Nil => Cardinality(Streams) < maxStreams
    /\ nCalls' = c
    /\ hasPipe' = [hasPipe EXCEPT ![c] = TRUE]
    /\ buf' = [buf EXCEPT ![c] = <<>>]
    /\ werr' = [werr EXCEPT ![c] = Nil]
    /\ nTasks' = [nTasks EXCEPT ![c] = @ + 1]
    /\ taskPc' = [taskPc EXCEPT ![c] = "generating"]
    /\ callResult' = [callResult EXCEPT ![c] = IF clientErr # Nil THEN "error" ELSE "ok"]
    /\ UNCHANGED <<providerVars, callCtxDone, nChunks, produced, pending, genErr,
                   recvVars>>

\* a ChatStream that returns the handle and never starts the task
ChatStreamNoTask(c, clientErr, maxStreams) ==
    /\ c = nCalls + 1
    /\ clientErr = Nil => Cardinality(Streams) < maxStreams
    /\ nCalls' = c
    /\ IF clientErr # Nil
       THEN /\ callResult' = [callResult EXCEPT ![c] = "error"]
            /\ UNCHANGED <<hasPipe, pipeVars>>
       ELSE /\ hasPipe' = [hasPipe EXCEPT ![c] = TRUE]
            /\ buf' = [buf EXCEPT ![c] = <<>>]
            /\ werr' = [werr EXCEPT ![c] = Nil]
            /\ callResult' = [callResult EXCEPT ![c] = "ok"]
    /\ UNCHANGED <<providerVars, callCtxDone, nTasks, taskPc, nChunks, produced,
                   pending, genErr, recvVars>>

\* GroqProvider.ChatStream, call number c, with the result of openai.New
\* (at most maxStreams calls succeed)
ChatStream(c, clientErr, maxStreams) ==
    /\ c = nCalls + 1
    /\ clientErr = Nil => Cardinality(Streams) < maxStreams
    /\ nCalls' = c
    /\ IF clientErr # Nil
       THEN /\ callResult' = [callResult EXCEPT ![c] = "error"]
            /\ UNCHANGED <<nTasks, hasPipe, taskPc, pipeVars>>
       ELSE /\ hasPipe' = [hasPipe EXCEPT ![c] = TRUE]
            /\ buf' = [buf EXCEPT ![c] = <<>>]
            /\ werr' = [werr EXCEPT ![c] = Nil]
            /\ nTasks' = [nTasks EXCEPT ![c] = @ + 1]
            /\ taskPc' = [taskPc EXCEPT ![c] = "generating"]
            /\ callResult' = [callResult EXCEPT ![c] = "ok"]
    /\ UNCHANGED <<providerVars, callCtxDone, nChunks, produced, pending, genErr,
                   recvVars>>

\* the caller cancels the context it gave to ChatStream call c
CancelCallCtx(c) ==
    /\ callResult[c] = "ok"
    /\ ~callCtxDone[c]
    /\ callCtxDone' = [callCtxDone EXCEPT ![c] = TRUE]
    /\ UNCHANGED <<providerVars, callVars, taskVars, pipeVars, recvVars>>

\* the backend delivers n more bytes: GenerateContent calls the streaming
\* callback, which enters w.Write(chunk)
StreamingFunc(c, n, maxChunks) ==
    /\ taskPc[c] = "generating"
    /\ nChunks[c] < maxChunks
    /\ nChunks' = [nChunks EXCEPT ![c] = @ + 1]
    /\ produced' = [produced EXCEPT ![c] = @ + n]
    /\ pending' = [pending EXCEPT ![c] = BackendBytes(c, produced[c] + 1, produced[c] + n)]
    /\ taskPc' = [taskPc EXCEPT ![c] = "writing"]
    /\ UNCHANGED <<providerVars, callVars, callCtxDone, genErr, pipeVars, recvVars>>

\* one pass of the loop of the pipe's Write: it waits while the buffer is
\* full, and returns once the whole chunk is buffered (or the pipe is closed)
PipeWrite(c) ==
    /\ taskPc[c] = "writing"
    /\ IF werr[c] # Nil
       THEN /\ pending' = [pending EXCEPT ![c] = <<>>]
            /\ taskPc' = [taskPc EXCEPT ![c] = "generating"]
            /\ UNCHANGED buf
       ELSE LET m == PipeWriteCount(pending[c], buf[c])
            IN  /\ m > 0
                /\ buf' = [buf EXCEPT ![c] = BytesConcat(@, BytesTake(pending[c], m))]
                /\ pending' = [pending EXCEPT ![c] = BytesDrop(@, m)]
                /\ taskPc' = [taskPc EXCEPT ![c] =
                                 IF BytesDrop(pending[c], m) = <<>>
                                 THEN "generating" ELSE "writing"]
    /\ UNCHANGED <<providerVars, callVars, callCtxDone, nChunks, produced, genErr,
                   werr, recvVars>>

\* client.GenerateContent returns err
GenerateContentReturn(c, err) ==
    /\ taskPc[c] = "generating"
    /\ genErr' = [genErr EXCEPT ![c] = err]
    /\ taskPc' = [taskPc EXCEPT ![c] = "returned"]
    /\ UNCHANGED <<providerVars, callVars, callCtxDone, nChunks, produced, pending,
                   pipeVars, recvVars>>

\* client.GenerateContent(ctx, ...) gives up its network call: ctx is cancelled
GenerateContentAbort(c) ==
    /\ callCtxDone[c]
    /\ GenerateContentReturn(c, ErrCanceled)

\* a close on a pipe that all calls of the provider share
TaskCloseShared(c) ==
    /\ taskPc[c] = "returned"
    /\ werr' = [d \in Calls |-> IF hasPipe[d]
                                THEN PipeCloseWithError(werr[d], CloseError(genErr[c]))
                                ELSE werr[d]]
    /\ taskPc' = [taskPc EXCEPT ![c] = "done"]
    /\ UNCHANGED <<providerVars, callVars, callCtxDone, nChunks, produced, pending,
                   genErr, buf, recvVars>>

\* a task that closes the pipe while GenerateContent is still streaming
TaskCloseEarly(c) ==
    /\ taskPc[c] \in {"generating", "returned"}
    /\ werr' = [werr EXCEPT ![c] = PipeCloseWithError(@, CloseError(genErr[c]))]
    /\ taskPc' = [taskPc EXCEPT ![c] = IF @ = "returned" THEN "done" ELSE @]
    /\ UNCHANGED <<providerVars, callVars, callCtxDone, nChunks, produced, pending,
                   genErr, buf, recvVars>>

\* if err != nil { w.CloseWithError(err) } else { w.Close() }; the task ends
TaskClose(c) ==
    /\ taskPc[c] = "returned"
    /\ werr' = [werr EXCEPT ![c] = PipeCloseWithError(@, CloseError(genErr[c]))]
    /\ taskPc' = [taskPc EXCEPT ![c] = "done"]
    /\ UNCHANGED <<providerVars, callVars, callCtxDone, nChunks, produced, pending,
                   genErr, buf, recvVars>>

\* the caller calls Receive(ctx) on the handle of call c
Receive(c, ctxKind) ==
    /\ callResult[c] = "ok"
    /\ recvPc[c] = "idle"
    /\ nTerminal[c] < MaxTerminalReads
    /\ recvPc' = [recvPc EXCEPT ![c] = "reading"]
    /\ recvCtx' = [recvCtx EXCEPT ![c] = ctxKind]
    /\ recvCtxDone' = [recvCtxDone EXCEPT ![c] = FALSE]
    /\ UNCHANGED <<providerVars, callVars, callCtxDone, taskVars, pipeVars, received,
                   lastChunk, lastErr, firstTerminal, nTerminal>>

\* the caller cancels the context it gave to the running Receive
CancelReceiveCtx(c) ==
    /\ recvPc[c] = "reading"
    /\ recvCtx[c] = "own"
    /\ ~recvCtxDone[c]
    /\ recvCtxDone' = [recvCtxDone EXCEPT ![c] = TRUE]
    /\ UNCHANGED <<providerVars, callVars, callCtxDone, taskVars, pipeVars, recvPc,
                   recvCtx, received, lastChunk, lastErr, firstTerminal, nTerminal>>

\* s.reader.Read(buf) returns n > 0 bytes; Receive returns string(buf[:n]), nil
ReceiveData(c) ==
    /\ recvPc[c] = "reading"
    /\ buf[c] # <<>>
    /\ LET n == PipeReadCount(buf[c])
           chunk == ReceiveChunk(buf[c], n)
       IN  /\ buf' = [buf EXCEPT ![c] = BytesDrop(@, n)]
           /\ received' = [received EXCEPT ![c] = BytesConcat(@, chunk)]
           /\ lastChunk' = [lastChunk EXCEPT ![c] = chunk]
    /\ lastErr' = [lastErr EXCEPT ![c] = Nil]
    /\ recvPc' = [recvPc EXCEPT ![c] = "idle"]
    /\ recvCtx' = [recvCtx EXCEPT ![c] = "chat"]
    /\ recvCtxDone' = [recvCtxDone EXCEPT ![c] = FALSE]
    /\ UNCHANGED <<providerVars, callVars, callCtxDone, taskVars, werr,
                   firstTerminal, nTerminal>>

\* a Receive whose reader reports its error once and end-of-stream from then on
ReceiveFailOnce(c) ==
    /\ recvPc[c] = "reading"
    /\ PipeReadFails(buf[c], werr[c])
    /\ lastChunk' = [lastChunk EXCEPT ![c] = <<>>]
    /\ lastErr' = [lastErr EXCEPT ![c] = ReceiveError(werr[c])]
    /\ firstTerminal' = [firstTerminal EXCEPT ![c] =
                            IF @ = "none" THEN ReceiveError(werr[c]) ELSE @]
    /\ nTerminal' = [nTerminal EXCEPT ![c] = @ + 1]
    /\ recvPc' = [recvPc EXCEPT ![c] = "idle"]
    /\ recvCtx' = [recvCtx EXCEPT ![c] = "chat"]
    /\ recvCtxDone' = [recvCtxDone EXCEPT ![c] = FALSE]
    /\ werr' = [werr EXCEPT ![c] = EOF]
    /\ UNCHANGED <<providerVars, callVars, callCtxDone, taskVars, buf, received>>

\* s.reader.Read(buf) returns an error; Receive returns "", io.EOF or "", err
ReceiveFail(c) ==
    /\ recvPc[c] = "reading"
    /\ PipeReadFails(buf[c], werr[c])
    /\ lastChunk' = [lastChunk EXCEPT ![c] = <<>>]
    /\ lastErr' = [lastErr EXCEPT ![c] = ReceiveError(werr[c])]
    /\ firstTerminal' = [firstTerminal EXCEPT ![c] =
                            IF @ = "none" THEN ReceiveError(werr[c]) ELSE @]
    /\ nTerminal' = [nTerminal EXCEPT ![c] = @ + 1]
    /\ recvPc' = [recvPc EXCEPT ![c] = "idle"]
    /\ recvCtx' = [recvCtx EXCEPT ![c] = "chat"]
    /\ recvCtxDone' = [recvCtxDone EXCEPT ![c] = FALSE]
    /\ UNCHANGED <<providerVars, callVars, callCtxDone, taskVars, pipeVars, received>>

\* GroqProvider.Models: the GET fails with transportErr, or gives body
Models(transportErr, body) ==
    /\ transportErr # Nil => body = NoBody
    /\ modelsRet' =
          [called |-> TRUE, transportErr |-> transportErr, body |-> body,
           models |-> IF transportErr # Nil THEN <<>>
                      ELSE ForEachActive(GjsonData(body), 1, <<>>),
           err |-> transportErr]
    /\ UNCHANGED <<connectContext, pingRet, chatMessages, convertedTools, callVars,
                   callCtxDone, taskVars, pipeVars, recvVars>>

\* a Ping that drops the API key when the probe fails
PingDropsKey(err) ==
    /\ pingRet' = [called |-> TRUE, err |-> err]
    /\ connectContext' = IF err # Nil THEN "" ELSE connectContext
    /\ UNCHANGED <<modelsRet, chatMessages, convertedTools, callVars,
                   callCtxDone, taskVars, pipeVars, recvVars>>

\* GroqProvider.Ping: the GET returns err
Ping(err) ==
    /\ pingRet' = [called |-> TRUE, err |-> err]
    /\ UNCHANGED <<connectContext, modelsRet, chatMessages, convertedTools, callVars,
                   callCtxDone, taskVars, pipeVars, recvVars>>

\* a call of convertConversations (ChatStream passes its result to GenerateContent)
CallConvertConversations(conversations) ==
    /\ chatMessages' = [called |-> TRUE, conversations |-> conversations,
                        out |-> convertConversations(conversations)]
    /\ UNCHANGED <<connectContext, modelsRet, pingRet, convertedTools, callVars,
                   callCtxDone, taskVars, pipeVars, recvVars>>

\* a call of convertTools (ChatStream passes its result to llms.WithTools)
CallConvertTools(tools) ==
    /\ convertedTools' = [called |-> TRUE, tools |-> tools, out |-> convertTools(tools)]
    /\ UNCHANGED <<connectContext, modelsRet, pingRet, chatMessages, callVars,
                   callCtxDone, taskVars, pipeVars, recvVars>>

----------------------------------------------------------------------------
\* the task's own steps, the backend's steps and the caller's steps
TaskStep(c) == PipeWrite(c) \/ TaskClose(c) \/ GenerateContentAbort(c)

ReaderStep(c) == ReceiveData(c) \/ ReceiveFail(c)

\* at most maxStreams calls succeed; each backend delivers at most maxChunks
\* chunks, of the sizes given; Receive is given the context ChatStream was given
Step(maxStreams, maxChunks, sizes) ==
    \/ \E c \in Calls, clientErr \in {Nil, ErrClient} : ChatStream(c, clientErr, maxStreams)
    \/ \E c \in Calls : CancelCallCtx(c)
    \/ \E c \in Calls, n \in sizes : StreamingFunc(c, n, maxChunks)
    \/ \E c \in Calls : PipeWrite(c)
    \/ \E c \in Calls, err \in {Nil, ErrTransport, ErrWrapsEOF} : GenerateContentReturn(c, err)
    \/ \E c \in Calls : GenerateContentAbort(c)
    \/ \E c \in Calls : TaskClose(c)
    \/ \E c \in Calls : Receive(c, "chat")
    \/ \E c \in Calls : ReceiveData(c)
    \/ \E c \in Calls : ReceiveFail(c)

\* Receive is given a context of its own, which the caller may cancel
OwnCtxStep ==
    \/ \E c \in Calls : Receive(c, "own")
    \/ \E c \in Calls : CancelReceiveCtx(c)

\* one stream at a time
Next == Step(1, MaxChunks, ChunkSizes) \/ OwnCtxStep

Spec == Init /\ [][Next]_vars

\* two streams of the same provider side by side
NextTwo == Step(2, MaxChunksTwo, ChunkSizesTwo)

SpecTwo == Init /\ [][NextTwo]_vars

\* Models on every response
NextModels ==
    \/ \E body \in Bodies : Models(Nil, body)
    \/ Models(ErrTransport, NoBody)

SpecModels == Init /\ [][NextModels]_vars

\* convertConversations on every conversation history
NextConversations ==
    \E conversations \in SeqsUpTo(Conversations, MaxTurns) :
        CallConvertConversations(conversations)

SpecConversations == Init /\ [][NextConversations]_vars

\* convertTools on every tool list
NextTools == \E tools \in SeqsUpTo(Tools, MaxTools) : CallConvertTools(tools)

SpecTools == Init /\ [][NextTools]_vars

\* a stream, with Ping and Models called at any time beside it
NextProvider ==
    \/ Step(1, MaxChunksTwo, ChunkSizesTwo)
    \/ \E err \in {Nil, ErrTransport} : Ping(err)
    \/ \E body \in {FixtureBody, [kind |-> "noData", data |-> <<>>]} : Models(Nil, body)
    \/ Models(ErrTransport, NoBody)

SpecProvider == Init /\ [][NextProvider]_vars

\* the background goroutine of every call keeps running: a step of it that
\* stays possible is taken.  Nothing is assumed of the backend or the caller.
TaskFairness == \A c \in Calls : WF_vars(TaskStep(c))

\* a Receive whose Read can return does return
ReaderFairness == \A c \in Calls : WF_vars(ReaderStep(c))

TaskFairSpec == Spec /\ TaskFairness

\* the backend of a call that waits on the network sends its next chunk or
\* ends the response
BackendStep(c, maxChunks) ==
    \/ \E n \in ChunkSizes : StreamingFunc(c, n, maxChunks)
    \/ \E err \in {Nil, ErrTransport, ErrWrapsEOF} : GenerateContentReturn(c, err)

\* no backend stays silent for ever
BackendFairness(maxChunks) == \A c \in Calls : WF_vars(BackendStep(c, maxChunks))

\* fair task and responsive backend; nothing is assumed of the caller
ProducerFairSpec == Spec /\ TaskFairness /\ BackendFairness(MaxChunks)

FairSpec == Spec /\ TaskFairness /\ ReaderFairness

\* a step of stream c: of its task, its backend, its running Receive, or its
\* caller calling Receive again
StreamStep(c, maxChunks) ==
    \/ TaskStep(c)
    \/ BackendStep(c, maxChunks)
    \/ ReaderStep(c)
    \/ Receive(c, "chat") \/ Receive(c, "own")

\* a stream that can take a step is not left waiting for ever: the goroutines
\* run, the backend ends its response and the caller keeps calling Receive
StreamFairness(maxChunks) == \A c \in Calls : WF_vars(StreamStep(c, maxChunks))

NextLive == Step(1, MaxChunksLive, ChunkSizes) \/ OwnCtxStep

LiveSpec == Init /\ [][NextLive]_vars /\ StreamFairness(MaxChunksLive)

----------------------------------------------------------------------------
\* everything call c's task has handed to w.Write so far
Produced(c) == BackendBytes(c, 1, produced[c])

\* the context given to the running Receive of call c is cancelled
ReceiveCtxDone(c) == IF recvCtx[c] = "chat" THEN callCtxDone[c] ELSE recvCtxDone[c]

\* Receive of call c is suspended: no data buffered, pipe not closed
ReceiveBlocked(c) == recvPc[c] = "reading" /\ buf[c] = <<>> /\ werr[c] = Nil

\* the task of call c is suspended in w.Write on a full buffer
WriteBlocked(c) == taskPc[c] = "writing" /\ BytesLen(buf[c]) = BufferSize

\* C1: the bytes handed to w.Write are, in the order written and each exactly
\* once, the bytes Receive has returned, then the bytes in the pipe's buffer,
\* then the rest of the chunk still in Write; when generation returned without
\* error Receive returns no error but io.EOF, and it returns io.EOF only after
\* the task closed the pipe and every byte written was returned; a Receive
\* reading the closed and drained pipe can return.
C1_BytesInOrderThenEOF ==
    \A c \in Calls :
        /\ BytesConcat(BytesConcat(received[c], buf[c]), pending[c]) = Produced(c)
        /\ genErr[c] = Nil =>
              /\ lastErr[c] \in {Nil, EOF}
              /\ lastErr[c] = EOF => taskPc[c] = "done" /\ received[c] = Produced(c)
              /\ (taskPc[c] = "done" /\ buf[c] = <<>> /\ recvPc[c] = "reading")
                    => ENABLED ReceiveFail(c)

\* C1 witness: more than a buffer's worth was written in several chunks, the
\* task closed normally, and Receive returned all of it and then io.EOF
C1_Witness ==
    \E c \in Calls :
        /\ genErr[c] = Nil /\ taskPc[c] = "done"
        /\ nChunks[c] >= 2 /\ produced[c] > BufferSize
        /\ lastErr[c] = EOF
        /\ received[c] = Produced(c)

\* C2: when generation failed, Receive has returned an error only if the
\* pipe's buffer is empty and every byte written was returned before.
C2_BytesBeforeError ==
    \A c \in Calls :
        (genErr[c] # Nil /\ lastErr[c] # Nil) =>
            /\ buf[c] = <<>>
            /\ received[c] = Produced(c)

\* C2 witness: bytes were written, generation failed, and Receive returned
\* the bytes and then the error
C2_Witness ==
    \E c \in Calls :
        /\ genErr[c] = ErrTransport /\ lastErr[c] = ErrTransport
        /\ produced[c] > 0
        /\ received[c] = Produced(c)

\* C3: the pipe's buffer never holds more than BufferSize bytes; while the
\* task is in w.Write and the buffer is full no step completes the Write or
\* moves a byte of its chunk; as soon as the buffer has room the Write can go on.
C3_Backpressure ==
    /\ [](\A c \in Calls :
            /\ BytesLen(buf[c]) <= BufferSize
            /\ (taskPc[c] = "writing" /\ BytesLen(buf[c]) < BufferSize)
                  => ENABLED PipeWrite(c))
    /\ [][\A c \in Calls :
            WriteBlocked(c) => taskPc'[c] = "writing" /\ pending'[c] = pending[c]]_vars

\* C3 witness: the task is suspended in w.Write on a full buffer with bytes
\* of its chunk left
C3_Witness ==
    \E c \in Calls : WriteBlocked(c) /\ pending[c] # <<>>

\* C4: once Receive has returned an error (io.EOF included), the result of
\* the last Receive is that same error and no data.
C4_TerminalIsSticky ==
    \A c \in Calls :
        firstTerminal[c] # "none" =>
            /\ lastErr[c] = firstTerminal[c]
            /\ lastChunk[c] = <<>>

\* C4 witness: Receive returned an error after a failed generation, and was
\* called and returned again
C4_Witness ==
    \E c \in Calls :
        /\ nTerminal[c] >= 2
        /\ firstTerminal[c] = ErrTransport
        /\ recvPc[c] = "idle"

\* C5: a Receive that is suspended on an empty, open pipe while the context
\* it was given is cancelled eventually returns (with the cancellation error,
\* or with what the producer wrote or closed with in the meantime).
C5_ReceiveReturnsOnCancel ==
    \A c \in Calls :
        (ReceiveBlocked(c) /\ ReceiveCtxDone(c)) ~> (recvPc[c] = "idle")

\* C6: after the context given to ChatStream is cancelled the task eventually
\* closes the pipe and ends.
C6_CancelStopsTask ==
    \A c \in Calls :
        (callResult[c] = "ok" /\ callCtxDone[c]) ~> (taskPc[c] = "done" /\ werr[c] # Nil)

\* C7: the terminal condition Receive reports is io.EOF exactly when
\* generation returned without error, and otherwise is the error generation
\* returned.
C7_TerminalMatchesOutcome ==
    \A c \in Calls :
        firstTerminal[c] # "none" =>
            /\ taskPc[c] = "done"
            /\ firstTerminal[c] = EOF <=> genErr[c] = Nil
            /\ genErr[c] # Nil => firstTerminal[c] = genErr[c]

\* C8: a ChatStream call whose client construction failed has no pipe and no
\* task, nothing was produced or buffered for it, and it returned no handle
\* to call Receive on.
C8_FailFast ==
    \A c \in Calls :
        callResult[c] = "error" =>
            /\ nTasks[c] = 0 /\ taskPc[c] = "none"
            /\ ~hasPipe[c] /\ buf[c] = <<>> /\ werr[c] = Nil
            /\ produced[c] = 0 /\ received[c] = <<>>
            /\ recvPc[c] = "idle"
            /\ ~ENABLED Receive(c, "chat")

\* C8 witness: a call failed, and a later call streamed to its end
C8_Witness ==
    \E c, d \in Calls :
        /\ c < d
        /\ callResult[c] = "error"
        /\ callResult[d] = "ok" /\ taskPc[d] = "done" /\ lastErr[d] = EOF

\* C9: a ChatStream call that returned a handle has started exactly one task
\* and has its pipe; at its return the task is generating and has produced
\* nothing; a Receive that finds bytes in the buffer can return them whatever
\* the task is doing.
C9_OneTaskNoWait ==
    /\ [](\A c \in Calls :
            /\ callResult[c] = "ok" => nTasks[c] = 1 /\ hasPipe[c] /\ taskPc[c] # "none"
            /\ (recvPc[c] = "reading" /\ buf[c] # <<>>) => ENABLED ReceiveData(c))
    /\ [][\A c \in Calls :
            (callResult[c] = "none" /\ callResult'[c] = "ok") =>
                /\ taskPc'[c] = "generating"
                /\ produced'[c] = 0 /\ nChunks'[c] = 0
                /\ buf'[c] = <<>> /\ werr'[c] = Nil]_vars

\* C9 witness: Receive returned bytes while the task is still in
\* GenerateContent
C9_Witness ==
    \E c \in Calls :
        /\ nTasks[c] = 1
        /\ taskPc[c] \in {"generating", "writing"}
        /\ lastChunk[c] # <<>> /\ lastErr[c] = Nil

\* every byte of bs was produced by the backend of call c
BytesOf(bs, c) == \A i \in 1..Len(bs) : bs[i].src = c

\* C10: the bytes in a call's pipe and the bytes its Receive returned were
\* all written by that call's own task, and no step changes the task, the
\* pipe or the reader of more than one call.
C10_StreamsIsolated ==
    /\ [](\A c \in Calls :
            BytesOf(buf[c], c) /\ BytesOf(received[c], c) /\ BytesOf(lastChunk[c], c))
    /\ [][\A c, d \in Calls :
            c # d =>
              \/ <<taskPc[c], pending[c], genErr[c], buf[c], werr[c], received[c],
                   lastErr[c], firstTerminal[c]>>'
                   = <<taskPc[c], pending[c], genErr[c], buf[c], werr[c], received[c],
                       lastErr[c], firstTerminal[c]>>
              \/ <<taskPc[d], pending[d], genErr[d], buf[d], werr[d], received[d],
                   lastErr[d], firstTerminal[d]>>'
                   = <<taskPc[d], pending[d], genErr[d], buf[d], werr[d], received[d],
                       lastErr[d], firstTerminal[d]>>]_vars

\* C10 witness: of two streams one has ended with an error while the other
\* still holds buffered bytes in an open pipe and has returned bytes
C10_Witness ==
    \E c, d \in Calls :
        /\ c # d
        /\ werr[c] = ErrTransport /\ lastErr[c] = ErrTransport
        /\ werr[d] = Nil /\ buf[d] # <<>> /\ received[d] # <<>>

\* C11: when the caller of a stream makes no further Receive call, the
\* stream's task eventually closes the pipe and ends.
C11_AbandonedStreamEnds ==
    \A c \in Calls :
        <>[](callResult[c] = "ok" /\ recvPc[c] = "idle") => <>(taskPc[c] = "done")

\* C12: while no data is buffered and the pipe is open a running Receive does
\* not return; a Receive that returns without error returns a non-empty chunk
\* of at most ReadSize bytes, which is all the buffer held up to ReadSize and
\* is exactly the oldest bytes of the buffer, which it removes.
C12_ReceiveChunk ==
    [][\A c \in Calls :
          /\ ReceiveBlocked(c) => recvPc'[c] = "reading"
          /\ (recvPc[c] = "reading" /\ recvPc'[c] = "idle" /\ lastErr'[c] = Nil) =>
                /\ lastChunk'[c] # <<>>
                /\ BytesLen(lastChunk'[c]) = Min(ReadSize, BytesLen(buf[c]))
                /\ lastChunk'[c] = BytesTake(buf[c], BytesLen(lastChunk'[c]))
                /\ buf'[c] = BytesDrop(buf[c], BytesLen(lastChunk'[c]))]_vars

\* C12 witness: Receive returned ReadSize bytes, the first part of a larger
\* chunk, and bytes of that chunk are still buffered
C12_Witness ==
    \E c \in Calls :
        /\ recvPc[c] = "idle" /\ lastErr[c] = Nil
        /\ BytesLen(lastChunk[c]) = ReadSize
        /\ nChunks[c] = 1 /\ produced[c] > ReadSize
        /\ buf[c] # <<>>

\* C19: the pipe of a call is closed exactly when its task has ended, with
\* io.EOF when generation returned nil and with generation's error otherwise;
\* the close is taken from the state where GenerateContent has returned, and
\* from then on the close error, the task and its chunk never change: no
\* second close and no Write on the closed pipe.
C19_CloseOnceAtEnd ==
    /\ [](\A c \in Calls :
            /\ werr[c] # Nil <=> taskPc[c] = "done"
            /\ werr[c] # Nil =>
                  /\ werr[c] = (IF genErr[c] = Nil THEN EOF ELSE genErr[c])
                  /\ pending[c] = <<>>)
    /\ [][\A c \in Calls :
            /\ (werr[c] = Nil /\ werr'[c] # Nil) => taskPc[c] = "returned"
            /\ werr[c] # Nil =>
                  /\ werr'[c] = werr[c]
                  /\ taskPc'[c] = taskPc[c] /\ pending'[c] = pending[c]
                  /\ genErr'[c] = genErr[c] /\ produced'[c] = produced[c]
                  /\ BytesLen(buf'[c]) <= BytesLen(buf[c])]_vars

\* C19 witness: a task that wrote more than the pipe holds closed with
\* generation's error and ended, and Receive has since drained the pipe
C19_Witness ==
    \E c \in Calls :
        /\ taskPc[c] = "done" /\ werr[c] = ErrTransport
        /\ produced[c] > BufferSize
        /\ received[c] = Produced(c)

\* C17: with fair scheduling, a backend that ends its response and a caller
\* that keeps calling Receive, every Write of the task completes, a Receive
\* suspended on the empty pipe returns, the task closes the pipe and ends, and
\* the caller gets a terminal condition.
C17_NoDeadlock ==
    \A c \in Calls :
        /\ (taskPc[c] = "writing") ~> (taskPc[c] # "writing")
        /\ ReceiveBlocked(c) ~> (recvPc[c] = "idle")
        /\ (callResult[c] = "ok") ~> (taskPc[c] = "done" /\ werr[c] # Nil)
        /\ (callResult[c] = "ok") ~> (firstTerminal[c] # "none")

\* C17 witness: the task wrote a chunk larger than the pipe, so that its Write
\* was suspended, and the caller got end-of-stream after all bytes
C17_Witness ==
    \E c \in Calls :
        /\ nChunks[c] = MaxChunksLive /\ produced[c] > BufferSize
        /\ firstTerminal[c] = EOF /\ genErr[c] = Nil
        /\ received[c] = Produced(c)

----------------------------------------------------------------------------
\* the k-th smallest member of a set of indices
KthIndex(S, k) == CHOOSE i \in S : Cardinality({j \in S : j <= i}) = k

\* C13: when the GET of the model list fails in transport, or its body is not
\* a JSON document with an array under "data", Models returns an error and no
\* model list
C13_FailureIsError ==
    (modelsRet.called /\ (modelsRet.transportErr # Nil \/ modelsRet.body.kind # "list")) =>
        (modelsRet.err # Nil /\ modelsRet.models = <<>>)

\* C14: for a successful response Models returns exactly the entries of data
\* whose active is true, in response order, each as a Model named by the
\* entry's id and tagged with the provider; an entry whose active is false or
\* absent is not in the result
C14_OnlyActiveInOrder ==
    (modelsRet.called /\ modelsRet.transportErr = Nil /\ modelsRet.body.kind = "list") =>
        LET data == modelsRet.body.data
            active == {i \in 1..Len(data) : data[i].active = "true"}
        IN  /\ modelsRet.err = Nil
            /\ Len(modelsRet.models) = Cardinality(active)
            /\ \A k \in 1..Len(modelsRet.models) :
                  modelsRet.models[k] =
                      [Name |-> data[KthIndex(active, k)].id, Provider |-> ProviderNameGroq]

\* the fixture: three models, two of them active, one of the others without
\* an active field
C14_Witness ==
    /\ modelsRet.called
    /\ modelsRet.err = Nil
    /\ Len(modelsRet.body.data) = 3
    /\ \E i \in 1..3 : modelsRet.body.data[i].active = "absent"
    /\ modelsRet.body.data[1].active = "true"
    /\ modelsRet.body.data[3].active = "true"
    /\ Len(modelsRet.models) = 2
    /\ modelsRet.models[1].Name # modelsRet.models[2].Name

\* C15: the output of convertConversations has as many messages as the history
\* has turns of role user or AI, the i-th message is the i-th such turn (user
\* as a human message, AI as an AI message, text unchanged), and a turn of any
\* other role gives no message
C15_MapsUserAndAITurns ==
    chatMessages.called =>
        LET in == chatMessages.conversations
            kept == {i \in 1..Len(in) :
                        in[i].Role \in {ConversationRoleUser, ConversationRoleAI}}
        IN  /\ Len(chatMessages.out) = Cardinality(kept)
            /\ \A k \in 1..Len(chatMessages.out) :
                  LET turn == in[KthIndex(kept, k)]
                  IN  /\ chatMessages.out[k].Text = turn.Text
                      /\ chatMessages.out[k].Role =
                            IF turn.Role = ConversationRoleUser THEN "human" ELSE "ai"

\* a history with a turn of another role between an AI turn and a user turn
C15_Witness ==
    /\ chatMessages.called
    /\ Len(chatMessages.conversations) = 3
    /\ chatMessages.conversations[1].Role = ConversationRoleAI
    /\ chatMessages.conversations[2].Role = "system"
    /\ chatMessages.conversations[3].Role = ConversationRoleUser
    /\ chatMessages.conversations[1].Text # chatMessages.conversations[3].Text
    /\ Len(chatMessages.out) = 2

\* C16: for a list of N tools, N = 0 included, convertTools returns N schema
\* objects, the i-th with the i-th tool's name and description, each of type
\* function with an object parameter schema whose properties are exactly
\* rationale (a string) and suggestions (an array of strings) and whose
\* required list is rationale, suggestions; the schema is the same for every tool
C16_OneSchemaPerTool ==
    convertedTools.called =>
        /\ Len(convertedTools.out) = Len(convertedTools.tools)
        /\ \A i \in 1..Len(convertedTools.out) :
              LET t == convertedTools.out[i]
                  params == t.Function.Parameters
              IN  /\ t.Type = "function"
                  /\ t.Function.Name = convertedTools.tools[i].Name
                  /\ t.Function.Description = convertedTools.tools[i].Description
                  /\ params.Type = "object"
                  /\ DOMAIN params.Properties = {"rationale", "suggestions"}
                  /\ params.Properties.rationale.Type = "string"
                  /\ params.Properties.suggestions.Type = "array"
                  /\ params.Properties.suggestions.Items.Type = "string"
                  /\ params.Required = <<"rationale", "suggestions">>
                  /\ params = convertedTools.out[1].Function.Parameters

\* three tools, not all alike
C16_Witness ==
    /\ convertedTools.called
    /\ Len(convertedTools.tools) = MaxTools
    /\ convertedTools.tools[1].Name # convertedTools.tools[2].Name
    /\ convertedTools.tools[2].Description # convertedTools.tools[3].Description
    /\ Len(convertedTools.out) = MaxTools

\* C18: no operation changes the provider's connection context, and a step of
\* Ping or Models changes nothing of any stream: not the bytes in its pipe, not
\* its close error, not what its caller has received, not its terminal condition
C18_ConnectContextFrame ==
    [][/\ connectContext' = connectContext
       /\ (pingRet' # pingRet \/ modelsRet' # modelsRet) =>
             UNCHANGED <<callVars, callCtxDone, taskVars, pipeVars, recvVars>>]_vars

\* Ping has failed and Models has answered while a stream had bytes in its pipe
C18_Witness ==
    /\ pingRet.called
    /\ pingRet.err = ErrTransport
    /\ modelsRet.called
    /\ Len(modelsRet.models) = 2
    /\ \E c \in Calls : buf[c] # <<>> /\ werr[c] = Nil /\ received[c] # <<>>

====
